---- MODULE Spec2Model ----
(***************************************************************************)
(* Model of assembler.py (CenturionAsm): the instruction catalog MNEMONICS *)
(* as the dict literal constructs it, and the line loop of assemble().     *)
(*                                                                         *)
(* Text is modelled as a sequence of symbols.  A symbol is the blank " ",  *)
(* the semicolon ";" or a whole word ("NOP", "START:", ...); a token that  *)
(* is made of two or more symbols spells the concatenation of its symbols, *)
(* and the words are chosen so that no such concatenation is a catalog key.*)
(* A line of `source` is the text of the line without its newline.         *)
(***************************************************************************)
EXTENDS Integers, Sequences, FiniteSets, TLC

VARIABLES source, idx, pc, line, terms, operand, mnemonic, out_buf,
          diagnostics, symbols

vars == <<source, idx, pc, line, terms, operand, mnemonic, out_buf,
          diagnostics, symbols>>

(* ---------------------------- bounds ----------------------------------- *)
MaxLineLen == 3
MaxLines == 2
MaxStatements == 3

(* ------------------------- dataclasses --------------------------------- *)
Opcode(instr, params) == [instr |-> instr, params |-> params]

OpcodeGroup(literal, direct, indirect, pc_direct, pc_indirect, register) ==
  [literal |-> literal, direct |-> direct, indirect |-> indirect,
   pc_direct |-> pc_direct, pc_indirect |-> pc_indirect, register |-> register]

\* isinstance(d, OpcodeGroup)
IsOpcodeGroup(d) == "literal" \in DOMAIN d

\* the fields of an OpcodeGroup, in declaration order
Modes == <<"literal", "direct", "indirect", "pc_direct", "pc_indirect", "register">>

(* ----------------- the dict literal, entry by entry -------------------- *)
CatalogSource ==
  <<
    [key |-> "HLT", value |-> Opcode(0, "")],
    [key |-> "NOP", value |-> Opcode(1, "")],
    [key |-> "SF", value |-> Opcode(2, "")],
    [key |-> "RF", value |-> Opcode(3, "")],
    [key |-> "EI", value |-> Opcode(4, "")],
    [key |-> "DI", value |-> Opcode(5, "")],
    [key |-> "SL", value |-> Opcode(6, "")],
    [key |-> "RL", value |-> Opcode(7, "")],
    [key |-> "CL", value |-> Opcode(8, "")],
    [key |-> "RSR", value |-> Opcode(9, "")],
    [key |-> "RI", value |-> Opcode(10, "")],
    [key |-> "RIM", value |-> Opcode(11, "")],
    [key |-> "ELO", value |-> Opcode(12, "")],
    [key |-> "PCX", value |-> Opcode(13, "")],
    [key |-> "DLY", value |-> Opcode(14, "")],
    [key |-> "SYSRET", value |-> Opcode(15, "")],
    [key |-> "BL", value |-> Opcode(16, "PC+N")],
    [key |-> "BNL", value |-> Opcode(17, "PC+N")],
    [key |-> "BF", value |-> Opcode(18, "PC+N")],
    [key |-> "BNF", value |-> Opcode(19, "PC+N")],
    [key |-> "BZ", value |-> Opcode(20, "PC+N")],
    [key |-> "BNZ", value |-> Opcode(21, "PC+N")],
    [key |-> "BM", value |-> Opcode(22, "PC+N")],
    [key |-> "BP", value |-> Opcode(23, "PC+N")],
    [key |-> "BGZ", value |-> Opcode(24, "PC+N")],
    [key |-> "BLE", value |-> Opcode(25, "PC+N")],
    [key |-> "BS1", value |-> Opcode(26, "PC+N")],
    [key |-> "BS2", value |-> Opcode(27, "PC+N")],
    [key |-> "BS3", value |-> Opcode(28, "PC+N")],
    [key |-> "BS4", value |-> Opcode(29, "PC+N")],
    [key |-> "INR", value |-> Opcode(32, "Byte Register in high nibble, unsigned constant in low nibble")],
    [key |-> "DCR", value |-> Opcode(33, "Byte Register in high nibble, unsigned constant in low nibble")],
    [key |-> "CLR", value |-> Opcode(34, "Byte Register in high nibble, unsigned constant in low nibble")],
    [key |-> "IVR", value |-> Opcode(35, "Byte Register in high nibble, unsigned constant in low nibble")],
    [key |-> "SRR", value |-> Opcode(36, "Byte Register in high nibble, unsigned constant in low nibble")],
    [key |-> "SLR", value |-> Opcode(37, "Byte Register in high nibble, unsigned constant in low nibble")],
    [key |-> "RRR", value |-> Opcode(38, "Byte Register in high nibble, unsigned constant in low nibble")],
    [key |-> "RLR", value |-> Opcode(39, "Byte Register in high nibble, unsigned constant in low nibble")],
    [key |-> "INAL", value |-> Opcode(40, "")],
    [key |-> "DCAL", value |-> Opcode(41, "")],
    [key |-> "CLAL", value |-> Opcode(42, "")],
    [key |-> "IVAL", value |-> Opcode(43, "")],
    [key |-> "SRAL", value |-> Opcode(44, "")],
    [key |-> "SLAL", value |-> Opcode(45, "")],
    [key |-> "INR", value |-> Opcode(48, "Word Register in high nibble, unsigned constant in low nibble")],
    [key |-> "DCR", value |-> Opcode(49, "Word Register in high nibble, unsigned constant in low nibble")],
    [key |-> "CLR", value |-> Opcode(50, "Word Register in high nibble, unsigned constant in low nibble")],
    [key |-> "IVR", value |-> Opcode(51, "Word Register in high nibble, unsigned constant in low nibble")],
    [key |-> "SRR", value |-> Opcode(52, "Word Register in high nibble, unsigned constant in low nibble")],
    [key |-> "SLR", value |-> Opcode(53, "Word Register in high nibble, unsigned constant in low nibble")],
    [key |-> "RRR", value |-> Opcode(54, "Word Register in high nibble, unsigned constant in low nibble")],
    [key |-> "RLR", value |-> Opcode(55, "Word Register in high nibble, unsigned constant in low nibble")],
    [key |-> "INAW", value |-> Opcode(56, "")],
    [key |-> "DCAW", value |-> Opcode(57, "")],
    [key |-> "CLAW", value |-> Opcode(58, "")],
    [key |-> "IVAW", value |-> Opcode(59, "")],
    [key |-> "SRAW", value |-> Opcode(60, "")],
    [key |-> "SLAW", value |-> Opcode(61, "")],
    [key |-> "INX", value |-> Opcode(62, "")],
    [key |-> "DCX", value |-> Opcode(63, "")],
    [key |-> "ADD", value |-> Opcode(64, "Byte register, Byte register")],
    [key |-> "SUB", value |-> Opcode(65, "Byte register, Byte register")],
    [key |-> "AND", value |-> Opcode(66, "Byte register, Byte register")],
    [key |-> "ORI", value |-> Opcode(67, "Byte register, Byte register")],
    [key |-> "ORE", value |-> Opcode(68, "Byte register, Byte register")],
    [key |-> "XFR", value |-> Opcode(69, "Byte register, Byte register")],
    [key |-> "AABL", value |-> Opcode(72, "")],
    [key |-> "SABL", value |-> Opcode(73, "")],
    [key |-> "NABL", value |-> Opcode(74, "")],
    [key |-> "XAXL", value |-> Opcode(75, "")],
    [key |-> "XAYL", value |-> Opcode(76, "")],
    [key |-> "XABL", value |-> Opcode(77, "")],
    [key |-> "XAZL", value |-> Opcode(78, "")],
    [key |-> "XASL", value |-> Opcode(79, "")],
    [key |-> "ADD", value |-> Opcode(80, "Word Register, Word Register")],
    [key |-> "SUB", value |-> Opcode(81, "Word Register, Word Register")],
    [key |-> "AND", value |-> Opcode(82, "Word Register, Word Register")],
    [key |-> "ORI", value |-> Opcode(83, "Word Register, Word Register")],
    [key |-> "ORE", value |-> Opcode(84, "Word Register, Word Register")],
    [key |-> "XFR", value |-> Opcode(85, "Word Register, Word Register")],
    [key |-> "AABW", value |-> Opcode(88, "")],
    [key |-> "SABW", value |-> Opcode(89, "")],
    [key |-> "NABW", value |-> Opcode(90, "")],
    [key |-> "XAXW", value |-> Opcode(91, "")],
    [key |-> "XAYW", value |-> Opcode(92, "")],
    [key |-> "XABW", value |-> Opcode(93, "")],
    [key |-> "XAZW", value |-> Opcode(94, "")],
    [key |-> "XASW", value |-> Opcode(95, "")],
    [key |-> "LDXW", value |-> OpcodeGroup(
        Opcode(96, "#Literal"),
        Opcode(97, "Direct"),
        Opcode(98, "[Indirect]"),
        Opcode(99, "PC+N"),
        Opcode(100, "[PC+N]"),
        Opcode(101, "Word Register, Mod."))],
    [key |-> "STXW", value |-> OpcodeGroup(
        Opcode(104, "Store Location"),
        Opcode(105, "Direct"),
        Opcode(106, "[Indirect]"),
        Opcode(107, "PC+N"),
        Opcode(108, "[PC+N]"),
        Opcode(109, "Word Register, Mod."))],
    [key |-> "JMP", value |-> OpcodeGroup(
        Opcode(112, "#Literal"),
        Opcode(113, "Direct"),
        Opcode(114, "[Indirect]"),
        Opcode(115, "PC+N"),
        Opcode(116, "[PC+N]"),
        Opcode(117, "Word Register, Mod."))],
    [key |-> "SYSCALL", value |-> Opcode(118, "")],
    [key |-> "JSR", value |-> OpcodeGroup(
        Opcode(120, "#Literal"),
        Opcode(121, "Direct"),
        Opcode(122, "[Indirect]"),
        Opcode(123, "PC+N"),
        Opcode(124, "[PC+N]"),
        Opcode(125, "Word Register, Mod."))],
    [key |-> "LDAL", value |-> OpcodeGroup(
        Opcode(128, "#Literal"),
        Opcode(129, "Direct"),
        Opcode(130, "[Indirect]"),
        Opcode(131, "PC+N"),
        Opcode(132, "[PC+N]"),
        Opcode(133, "Word Register, Mod."))],
    [key |-> "LALA", value |-> Opcode(136, "")],
    [key |-> "LALB", value |-> Opcode(137, "")],
    [key |-> "LALX", value |-> Opcode(138, "")],
    [key |-> "LALY", value |-> Opcode(139, "")],
    [key |-> "LALZ", value |-> Opcode(140, "")],
    [key |-> "LALS", value |-> Opcode(141, "")],
    [key |-> "LALC", value |-> Opcode(142, "")],
    [key |-> "LALP", value |-> Opcode(143, "")],
    [key |-> "LDAW", value |-> OpcodeGroup(
        Opcode(144, "#Literal"),
        Opcode(145, "Direct"),
        Opcode(146, "[Indirect]"),
        Opcode(147, "PC+N"),
        Opcode(148, "[PC+N]"),
        Opcode(149, "Word Register, Mod."))],
    [key |-> "LAWA", value |-> Opcode(152, "")],
    [key |-> "LAWB", value |-> Opcode(153, "")],
    [key |-> "LAWX", value |-> Opcode(154, "")],
    [key |-> "LAWY", value |-> Opcode(155, "")],
    [key |-> "LAWZ", value |-> Opcode(156, "")],
    [key |-> "LAWS", value |-> Opcode(157, "")],
    [key |-> "LAWC", value |-> Opcode(158, "")],
    [key |-> "LAWP", value |-> Opcode(159, "")],
    [key |-> "STAL", value |-> OpcodeGroup(
        Opcode(160, "Store Location"),
        Opcode(161, "Direct"),
        Opcode(162, "[Indirect]"),
        Opcode(163, "PC+N"),
        Opcode(164, "[PC+N]"),
        Opcode(165, "Word Register, Mod."))],
    [key |-> "SALA", value |-> Opcode(168, "")],
    [key |-> "SALB", value |-> Opcode(169, "")],
    [key |-> "SALX", value |-> Opcode(170, "")],
    [key |-> "SALY", value |-> Opcode(171, "")],
    [key |-> "SALZ", value |-> Opcode(172, "")],
    [key |-> "SALS", value |-> Opcode(173, "")],
    [key |-> "SALC", value |-> Opcode(174, "")],
    [key |-> "SALP", value |-> Opcode(175, "")],
    [key |-> "STAW", value |-> OpcodeGroup(
        Opcode(176, "Store Location"),
        Opcode(177, "Direct"),
        Opcode(178, "[Indirect]"),
        Opcode(179, "PC+N"),
        Opcode(180, "[PC+N]"),
        Opcode(181, "Word Register, Mod."))],
    [key |-> "SAWA", value |-> Opcode(184, "")],
    [key |-> "SAWB", value |-> Opcode(185, "")],
    [key |-> "SAWX", value |-> Opcode(186, "")],
    [key |-> "SAWY", value |-> Opcode(187, "")],
    [key |-> "SAWZ", value |-> Opcode(188, "")],
    [key |-> "SAWS", value |-> Opcode(189, "")],
    [key |-> "SAWC", value |-> Opcode(190, "")],
    [key |-> "SAWP", value |-> Opcode(191, "")],
    [key |-> "LDBL", value |-> OpcodeGroup(
        Opcode(192, "#Literal"),
        Opcode(193, "Direct"),
        Opcode(194, "[Indirect]"),
        Opcode(195, "PC+N"),
        Opcode(196, "[PC+N]"),
        Opcode(197, "Word Register, Mod."))],
    [key |-> "LBLA", value |-> Opcode(200, "")],
    [key |-> "LBLB", value |-> Opcode(201, "")],
    [key |-> "LBLX", value |-> Opcode(202, "")],
    [key |-> "LBLY", value |-> Opcode(203, "")],
    [key |-> "LBLZ", value |-> Opcode(204, "")],
    [key |-> "LBLS", value |-> Opcode(205, "")],
    [key |-> "LBLC", value |-> Opcode(206, "")],
    [key |-> "LBLP", value |-> Opcode(207, "")],
    [key |-> "LDBW", value |-> OpcodeGroup(
        Opcode(208, "#Literal"),
        Opcode(209, "Direct"),
        Opcode(210, "[Indirect]"),
        Opcode(211, "PC+N"),
        Opcode(212, "[PC+N]"),
        Opcode(213, "Word Register, Mod."))],
    [key |-> "LBWA", value |-> Opcode(216, "")],
    [key |-> "LBWB", value |-> Opcode(217, "")],
    [key |-> "LBWX", value |-> Opcode(218, "")],
    [key |-> "LDBW", value |-> Opcode(219, "")],
    [key |-> "LBWZ", value |-> Opcode(220, "")],
    [key |-> "LBWS", value |-> Opcode(221, "")],
    [key |-> "LBWC", value |-> Opcode(222, "")],
    [key |-> "LBWP", value |-> Opcode(223, "")],
    [key |-> "STBL", value |-> OpcodeGroup(
        Opcode(224, "Store Location"),
        Opcode(225, "Direct"),
        Opcode(226, "[Indirect]"),
        Opcode(227, "PC+N"),
        Opcode(228, "[PC+N]"),
        Opcode(229, "Word Register, Mod."))],
    [key |-> "SBLA", value |-> Opcode(232, "")],
    [key |-> "SBLB", value |-> Opcode(233, "")],
    [key |-> "SBLX", value |-> Opcode(234, "")],
    [key |-> "SBLY", value |-> Opcode(235, "")],
    [key |-> "SBLZ", value |-> Opcode(236, "")],
    [key |-> "SBLS", value |-> Opcode(237, "")],
    [key |-> "SBLC", value |-> Opcode(238, "")],
    [key |-> "SBLP", value |-> Opcode(239, "")],
    [key |-> "STBW", value |-> OpcodeGroup(
        Opcode(240, "Store Location"),
        Opcode(241, "Direct"),
        Opcode(242, "[Indirect]"),
        Opcode(243, "PC+N"),
        Opcode(244, "[PC+N]"),
        Opcode(245, "Word Register, Mod."))],
    [key |-> "SBWA", value |-> Opcode(248, "")],
    [key |-> "SBWB", value |-> Opcode(249, "")],
    [key |-> "SBWX", value |-> Opcode(250, "")],
    [key |-> "SBWY", value |-> Opcode(251, "")],
    [key |-> "SBWZ", value |-> Opcode(252, "")],
    [key |-> "SBWS", value |-> Opcode(253, "")],
    [key |-> "SBWC", value |-> Opcode(254, "")],
    [key |-> "SBWP", value |-> Opcode(255, "")]
  >>

\* the keys written in the literal
Keys == {CatalogSource[i].key : i \in DOMAIN CatalogSource}

\* a dict display keeps, for a key written more than once, the last value
DictOf(entries) ==
  [k \in {entries[i].key : i \in DOMAIN entries} |->
     LET last == CHOOSE i \in DOMAIN entries :
                   /\ entries[i].key = k
                   /\ \A j \in DOMAIN entries : entries[j].key = k => j <= i
     IN  entries[last].value]

\* the same literal with the opcode of one entry mistyped (DCX as 0x3E, the
\* opcode of INX)
MNEMONICS_mistyped ==
  DictOf([i \in DOMAIN CatalogSource |->
            IF CatalogSource[i].key = "DCX"
              THEN [key |-> "DCX", value |-> Opcode(62, "")]
              ELSE CatalogSource[i]])

MNEMONICS == DictOf(CatalogSource)

(* --------------------------- text helpers ------------------------------ *)
\* str.strip(): drop the blanks at both ends
RECURSIVE lstrip(_)
lstrip(s) == IF s # <<>> /\ Head(s) = " " THEN lstrip(Tail(s)) ELSE s

RECURSIVE rstrip(_)
rstrip(s) ==
  IF s # <<>> /\ s[Len(s)] = " " THEN rstrip(SubSeq(s, 1, Len(s) - 1)) ELSE s

strip(s) == rstrip(lstrip(s))

\* line_cleaner.sub(r"\1", line) for ^(.*?)(?:;.+)?$ : the lazy group stops
\* at the first ";" that has at least one character after it on the line
\* (";.+" needs one), otherwise it runs to the end of the line
line_cleaner(s) ==
  LET cuts == {i \in 1..Len(s) : s[i] = ";" /\ i < Len(s)}
  IN  IF cuts = {} THEN s
      ELSE SubSeq(s, 1, (CHOOSE i \in cuts : \A j \in cuts : i <= j) - 1)

\* re.split(r"\s+", s) of a stripped, non-empty line: its maximal runs of
\* non-blank symbols
RECURSIVE re_split(_)
re_split(s) ==
  IF s = <<>> THEN <<>>
  ELSE IF Head(s) = " " THEN re_split(Tail(s))
  ELSE LET blanks == {i \in 1..Len(s) : s[i] = " "}
           stop == IF blanks = {} THEN Len(s) + 1
                   ELSE CHOOSE i \in blanks : \A j \in blanks : i <= j
       IN  <<SubSeq(s, 1, stop - 1)>> \o re_split(SubSeq(s, stop, Len(s)))

\* MNEMONICS[token] succeeds: the token is one word and that word is a key
HasKey(token) == Len(token) = 1 /\ token[1] \in DOMAIN MNEMONICS

(* ------------------------------ inputs --------------------------------- *)
Alphabet == {" ", ";", "NOP", "JMP"}

RECURSIVE SeqsUpTo(_, _)
SeqsUpTo(S, n) ==
  IF n = 0 THEN {<<>>}
  ELSE LET shorter == SeqsUpTo(S, n - 1)
       IN  shorter \cup {Append(s, x) : s \in shorter, x \in S}

TextLines == SeqsUpTo(Alphabet, MaxLineLen)

\* statements of the form [LABEL:] [MNEMONIC [OPERAND]] [; comment]
Labels == {<<>>, <<"START:">>}
Instructions == {<<>>, <<"NOP">>, <<"FOO">>, <<"BL">>, <<"BL", " ", "START">>,
                 <<"JMP">>, <<"JMP", " ", "START">>}
Comments == {<<>>, <<";", "c">>}

Join(a, b) == IF a = <<>> THEN b ELSE IF b = <<>> THEN a ELSE a \o <<" ">> \o b

StatementLines ==
  {Join(Join(l, i), c) : l \in Labels, i \in Instructions, c \in Comments}

(* ------------------------------ state ---------------------------------- *)
\* a local name that has not been assigned yet
Unbound == [unbound |-> TRUE]

InitLocals ==
  /\ idx = 0
  /\ pc = "loop"
  /\ line = <<>>
  /\ terms = <<>>
  /\ operand = <<>>
  /\ mnemonic = Unbound
  /\ out_buf = [_default |-> <<>>]
  /\ diagnostics = <<>>
  /\ symbols = <<>>

Init ==
  /\ source \in SeqsUpTo(TextLines, MaxLines)
  /\ InitLocals

InitProgram ==
  /\ source \in SeqsUpTo(StatementLines, MaxStatements)
  /\ InitLocals

(* ------------------- one iteration of `for line in source` ------------- *)
NextLine == strip(line_cleaner(source[idx + 1]))

\* if line == "": continue
SkipBlank ==
  /\ pc = "loop"
  /\ idx < Len(source)
  /\ NextLine = <<>>
  /\ idx' = idx + 1
  /\ line' = NextLine
  /\ UNCHANGED <<source, pc, terms, operand, mnemonic, out_buf,
                 diagnostics, symbols>>

\* except KeyError: continue
SkipKeyError ==
  /\ pc = "loop"
  /\ idx < Len(source)
  /\ NextLine # <<>>
  /\ LET split == re_split(NextLine)
     IN  /\ ~HasKey(split[Len(split)])
         /\ operand' = split[Len(split)]
         /\ terms' = SubSeq(split, 1, Len(split) - 1)
  /\ idx' = idx + 1
  /\ line' = NextLine
  /\ UNCHANGED <<source, pc, mnemonic, out_buf, diagnostics, symbols>>

\* if isinstance(mnemonic, OpcodeGroup): pass
AssembleGroup ==
  /\ pc = "loop"
  /\ idx < Len(source)
  /\ NextLine # <<>>
  /\ LET split == re_split(NextLine)
     IN  /\ HasKey(split[Len(split)])
         /\ IsOpcodeGroup(MNEMONICS[split[Len(split)][1]])
         /\ operand' = split[Len(split)]
         /\ terms' = SubSeq(split, 1, Len(split) - 1)
         /\ mnemonic' = MNEMONICS[split[Len(split)][1]]
  /\ idx' = idx + 1
  /\ line' = NextLine
  /\ UNCHANGED <<source, pc, out_buf, diagnostics, symbols>>

\* else: pass
AssembleOpcode ==
  /\ pc = "loop"
  /\ idx < Len(source)
  /\ NextLine # <<>>
  /\ LET split == re_split(NextLine)
     IN  /\ HasKey(split[Len(split)])
         /\ ~IsOpcodeGroup(MNEMONICS[split[Len(split)][1]])
         /\ operand' = split[Len(split)]
         /\ terms' = SubSeq(split, 1, Len(split) - 1)
         /\ mnemonic' = MNEMONICS[split[Len(split)][1]]
  /\ idx' = idx + 1
  /\ line' = NextLine
  /\ UNCHANGED <<source, pc, out_buf, diagnostics, symbols>>

\* the file is exhausted: the with block closes it and assemble returns
Return ==
  /\ pc = "loop"
  /\ idx = Len(source)
  /\ pc' = "done"
  /\ UNCHANGED <<source, idx, line, terms, operand, mnemonic, out_buf,
                 diagnostics, symbols>>

Next == SkipBlank \/ SkipKeyError \/ AssembleGroup \/ AssembleOpcode \/ Return

Spec == Init /\ [][Next]_vars

SpecProgram == InitProgram /\ [][Next]_vars

(* ------------------ vocabulary of the properties ----------------------- *)
ModeFamily == {"LDXW", "STXW", "JMP", "JSR", "LDAL", "LDAW", "STAL", "STAW",
               "LDBL", "LDBW", "STBL", "STBW"}

\* keys whose descriptor is a single opcode taking no operand
FixedMnemonics ==
  {k \in DOMAIN MNEMONICS :
     ~IsOpcodeGroup(MNEMONICS[k]) /\ MNEMONICS[k].params = ""}

\* the text of a line before its first ";", trimmed
BeforeComment(s) ==
  LET semis == {i \in 1..Len(s) : s[i] = ";"}
  IN  strip(IF semis = {} THEN s
            ELSE SubSeq(s, 1, (CHOOSE i \in semis : \A j \in semis : i <= j) - 1))

LabelDeclarations == {<<"START:">>}

\* the tokens of a statement after its comment and its label declaration
StatementTokens(s) ==
  LET toks == re_split(BeforeComment(s))
  IN  IF toks # <<>> /\ Head(toks) \in LabelDeclarations THEN Tail(toks) ELSE toks

CarriesUnknownMnemonic(s) ==
  StatementTokens(s) # <<>> /\ ~HasKey(Head(StatementTokens(s)))

CarriesInstruction(s) ==
  StatementTokens(s) # <<>> /\ HasKey(Head(StatementTokens(s)))

IsBareLabel(s) == re_split(BeforeComment(s)) = <<<<"START:">>>>

IsBlankOrComment(s) == BeforeComment(s) = <<>>

\* signed displacement byte of a branch at address `at` to `target`
Displacement(target, at) == (target - (at + 2)) % 256

\* every (key, mode) pair of the catalog; a single opcode counts as one pair
OpcodePairs ==
  {<<k, "fixed">> : k \in {x \in DOMAIN MNEMONICS : ~IsOpcodeGroup(MNEMONICS[x])}}
    \cup
  {<<k, Modes[n]>> : k \in {x \in DOMAIN MNEMONICS : IsOpcodeGroup(MNEMONICS[x])},
                     n \in DOMAIN Modes}

OpcodeAt(p) ==
  IF p[2] = "fixed" THEN MNEMONICS[p[1]].instr ELSE MNEMONICS[p[1]][p[2]].instr

\* every opcode byte of the catalog fits a byte
OpcodesInByte == \A p \in OpcodePairs : OpcodeAt(p) \in 0..255

\* no opcode byte of the catalog is assigned to two pairs
NoOpcodeTwice == \A p, q \in OpcodePairs : p # q => OpcodeAt(p) # OpcodeAt(q)

\* assemble() is running or has returned: the module is loaded and MNEMONICS
\* is the catalog its lookups read
Loaded == pc \in {"loop", "done"}

(* ----------------------------- properties ------------------------------ *)

\* C1: every mode-family mnemonic is stored in MNEMONICS as six opcodes, the
\* one of mode number n (literal, direct, indirect, pc_direct, pc_indirect,
\* register = 0..5) being the literal opcode plus n.
C1_ModeOffsets ==
  Loaded =>
    \A m \in ModeFamily :
      /\ m \in DOMAIN MNEMONICS
      /\ IsOpcodeGroup(MNEMONICS[m])
      /\ \A n \in DOMAIN Modes :
           MNEMONICS[m][Modes[n]].instr = MNEMONICS[m].literal.instr + (n - 1)

\* C2: every descriptor written in the dict literal is the one a lookup of
\* its own key returns.
C2_KeysUnique ==
  Loaded =>
    \A i \in DOMAIN CatalogSource :
      MNEMONICS[CatalogSource[i].key] = CatalogSource[i].value

\* C3: a source whose lines are each one fixed mnemonic assembles to one byte
\* per line, the base opcode of that line's mnemonic.
C3_FixedEmitsOpcode ==
  (/\ pc = "done"
   /\ source # <<>>
   /\ \A i \in DOMAIN source :
        Len(source[i]) = 1 /\ source[i][1] \in FixedMnemonics)
  => out_buf["_default"] =
       [i \in DOMAIN source |-> MNEMONICS[source[i][1]].instr]

\* C4: a branch to a label emits its opcode and the displacement
\* address(label) - (address of the branch + 2) modulo 256, for a label
\* declared before the branch and for one declared after it.
C4_BranchDisplacement ==
  pc = "done" =>
    /\ source = << <<"START:", " ", "NOP">>, <<"BL", " ", "START">> >>
         => out_buf["_default"] = <<1, 16, Displacement(0, 1)>>
    /\ source = << <<"BL", " ", "START">>, <<"START:", " ", "NOP">> >>
         => out_buf["_default"] = <<16, Displacement(2, 0), 1>>

\* C5: when a line carries a mnemonic that is not in the catalog, assembly
\* ends with an UnknownMnemonicError recorded for that line number and with
\* no byte written.
C5_UnknownMnemonicReported ==
  pc = "done" =>
    \A i \in DOMAIN source :
      CarriesUnknownMnemonic(source[i]) =>
        /\ \E d \in DOMAIN diagnostics :
             diagnostics[d] = [kind |-> "UnknownMnemonicError", line |-> i]
        /\ out_buf["_default"] = <<>>

\* C6: blank and comment-only lines add no byte, and a label declared on the
\* first line and followed only by blank or comment-only lines up to the next
\* instruction resolves to the address of that instruction (the origin, 0).
C6_BlankLinesKeepAddress ==
  pc = "done" =>
    /\ (\A i \in DOMAIN source : IsBlankOrComment(source[i]))
         => out_buf["_default"] = <<>>
    /\ \A j \in DOMAIN source :
         (/\ j > 2
          /\ IsBareLabel(source[1])
          /\ \A i \in 2..(j - 1) : IsBlankOrComment(source[i])
          /\ CarriesInstruction(source[j]))
         => /\ "START" \in DOMAIN symbols
            /\ symbols["START"] = 0

\* C8: the cleaned line is the text before the first ";" of the line read,
\* trimmed, wherever the ";" stands.
C8_CommentStripped ==
  idx > 0 => line = BeforeComment(source[idx])

\* C9: for a non-blank line the token looked up in the catalog is the first
\* token of the line and the remaining tokens are the operand text.
C9_FirstTokenIsMnemonic ==
  (idx > 0 /\ line # <<>>) =>
    /\ operand = Head(re_split(line))
    /\ terms = Tail(re_split(line))

\* C10: every opcode byte of MNEMONICS is in 0..255 and no two distinct
\* (key, mode) pairs have the same opcode byte.
C10_OpcodesDistinct ==
  Loaded => (OpcodesInByte /\ NoOpcodeTwice)

\* a lookup has returned a group and a later one a single opcode
C10_Witness ==
  /\ pc = "done"
  /\ idx = 2
  /\ operand = <<"NOP">>
  /\ mnemonic = MNEMONICS["NOP"]
  /\ source[1] = <<"JMP">>

====
